---- MODULE Spec2Model ----
(***************************************************************************)
(* Missed-entry detection and the clock-aligned poll scheduler of the      *)
(* teams notification checker (src/src/notification.rs, src/src/utils.rs). *)
(*                                                                         *)
(* Time is counted in whole seconds.  The sub-second part of Local::now()  *)
(* is dropped: the scheduler reads only minute() and second(), and the     *)
(* classifier compares against row times that have whole seconds, so       *)
(*   row < now /\ now - row >= 9min                                        *)
(* has the same truth value with and without the fraction.                 *)
(*                                                                         *)
(* Text is represented by tuples of numbers:                               *)
(*   <<k>>       the text "YYYY-MM-DD" of the day with Excel serial k      *)
(*   <<h, m, s>> the text "hh:mm:ss" printed with {:02}:{:02}:{:02}        *)
(*   <<>>        the empty text (what trim() leaves of blanks)             *)
(*   <<0, 0>>    any text of another shape                                 *)
(***************************************************************************)
EXTENDS Integers, Sequences, FiniteSets, TLC

VARIABLES
  clock,        \* wall clock, seconds since 00:00:00 of day 0
  pc,           \* position of start_notification_service
  now,          \* Local::now() as read at the top of the current loop iteration
  lastTrigger,  \* the minute (counted from 00:00 of day 0) of the latest iteration
                \* whose trigger_check was true
  done,         \* sheet -> row index -> completion cell (column D) of the workbook
  site,         \* index of the installation: its config.cfg and the columns B and C
                \* of its workbook, which never change
  report,       \* the report artifact (missing.txt)
  notification_list, \* result of the Detection Run of the current cycle
  runNow,       \* Local::now() as read inside check_for_missed_notifications
  cycleWork,    \* seconds of work (not sleep) spent since `now` was read
  ran,          \* outcome of the cycle's Detection Run: "none", "ok", "err"
  wrote,        \* outcome of the cycle's write_missing_report: "none", "ok", "err"
  message,      \* the notification message built in the cycle
  notifier,     \* outcome of the cycle's notifier step
  reportBefore, \* the report artifact as it was when the cycle was triggered
  slept,        \* duration of the latest sleep, in seconds
  reported,     \* rows that some Detection Run returned as missing
  allRunsOk,    \* no Detection Run has failed so far
  args          \* what the specification at hand starts from: NoArgs for the
                \* scheduler (Spec), the lines of config.cfg for main
                \* (MainSpec), the configured sheet names, the sheets of the
                \* workbook and Local::now() for the Detection Run (UnitSpec)

vars == <<clock, pc, now, lastTrigger, done, site, report, notification_list,
          runNow, cycleWork, ran, wrote, message, notifier, reportBefore, slept,
          reported, allRunsOk, args>>

----------------------------------------------------------------------------
(* Bounds of the model *)

\* The scheduler is started this many minutes before midnight of day 0 ...
LeadMinutes == 60
\* ... or in one of the minutes that follow,
StartWindowMinutes == 12
\* and is observed until this many minutes after midnight.
TailMinutes == 12
\* Longest time open_workbook takes, in seconds.
MaxCheckSecs == 2
\* Longest time the notifier subprocess runs, in seconds.
MaxNotifierSecs == 897
\* Excel serial number of day 0.
BaseSerial == 45000
\* Longest list of sheet names under [manage_game] when
\* check_for_missed_notifications is called on its own.
MaxGames == 3

----------------------------------------------------------------------------
(* Calendar *)

DaySecs == 24 * 3600

Hms(h, m, s) == h * 3600 + m * 60 + s

DayOf(t) == t \div DaySecs
TimeOf(t) == t % DaySecs
minute(t) == (t % 3600) \div 60
second(t) == t % 60
MinuteIdx(t) == t \div 60

\* now.format(DATE_FORMAT)
today_str(t) == <<BaseSerial + DayOf(t)>>

----------------------------------------------------------------------------
(* Cells of the workbook (calamine DataType) *)

\* A numeric cell holds the serial value d + f / 86400, with d whole days
\* and 0 <= f < 86400 seconds.
StringCell(s) == [t |-> "String", d |-> 0, f |-> 0, s |-> s]
FloatCell(d, f) == [t |-> "Float", d |-> d, f |-> f, s |-> <<>>]
DateTimeCell(d, f) == [t |-> "DateTime", d |-> d, f |-> f, s |-> <<>>]
IntCell(d) == [t |-> "Int", d |-> d, f |-> 0, s |-> <<>>]
BoolCell == [t |-> "Bool", d |-> 0, f |-> 0, s |-> <<>>]
EmptyCell == [t |-> "Empty", d |-> 0, f |-> 0, s |-> <<>>]
\* row.get(i) of a row that has no column i
NoCell == [t |-> "None", d |-> 0, f |-> 0, s |-> <<>>]

None == [some |-> FALSE, v |-> <<>>]
Some(x) == [some |-> TRUE, v |-> x]

\* serial_date.trunc() as i64: towards zero
excel_date_to_string(d, f) == <<IF d < 0 /\ f > 0 THEN d + 1 ELSE d>>

\* u32::MAX = 4294967295 seconds = 49710 days and 23295 seconds
\*          = 1193046 hours, 28 minutes and 15 seconds
U32MaxDays == 49710
U32MaxRest == 23295

\* (serial_time * 86400.0).round() as u32 saturates at 0 and at u32::MAX; the
\* quotients are taken from the days and the seconds apart, the product
\* being wider than the 32-bit integers of TLC.
excel_time_to_string(d, f) ==
  IF d < 0 THEN <<0, 0, 0>>
  ELSE IF d > U32MaxDays \/ (d = U32MaxDays /\ f > U32MaxRest)
    THEN <<1193046, 28, 15>>
    ELSE LET hours == d * 24 + f \div 3600
             minutes == (f % 3600) \div 60
             seconds == f % 60
         IN <<hours, minutes, seconds>>

\* DataType::as_f64 of a cell that is neither String, Float nor DateTime
as_f64_some(cell) == cell.t = "Int"

\* column B
date_str(cell) ==
  CASE cell.t = "String" -> Some(cell.s)
    [] cell.t = "Float" -> Some(excel_date_to_string(cell.d, cell.f))
    [] cell.t = "DateTime" -> Some(excel_date_to_string(cell.d, cell.f))
    [] cell.t \in {"Empty", "None"} -> None
    [] OTHER -> IF as_f64_some(cell) THEN Some(excel_date_to_string(cell.d, cell.f)) ELSE None

\* column C
time_str_opt(cell) ==
  CASE cell.t = "String" -> Some(cell.s)
    [] cell.t = "Float" -> Some(excel_time_to_string(cell.d, cell.f))
    [] cell.t = "DateTime" -> Some(excel_time_to_string(cell.d, cell.f))
    [] cell.t \in {"Empty", "None"} -> None
    [] OTHER -> IF as_f64_some(cell) THEN Some(excel_time_to_string(cell.d, cell.f)) ELSE None

\* column D
is_completed(cell) ==
  CASE cell.t = "Empty" -> FALSE
    [] cell.t = "String" /\ cell.s = <<>> -> FALSE
    [] cell.t = "None" -> FALSE
    [] OTHER -> TRUE

\* NaiveTime::parse_from_str(time_str, "%H:%M:%S") on a text "hh:mm:ss"; no
\* text of the workbooks below has the leap second 60, which chrono accepts.
parse_ok(time_str) ==
  /\ Len(time_str) = 3
  /\ time_str[1] \in 0..23
  /\ time_str[2] \in 0..59
  /\ time_str[3] \in 0..59

row_naive_time(time_str) == Hms(time_str[1], time_str[2], time_str[3])

----------------------------------------------------------------------------
(* check_for_missed_notifications: the classification of one row *)

OtherText == <<0, 0>>

grace_period == 9 * 60

\* the comparison of line 119 made strict
grace_passed_strict(time_difference) == time_difference > grace_period

\* line 119: the grace period has passed
grace_passed(time_difference) == time_difference >= grace_period

\* line 115: the row's time is in the past
is_past(row_time, current_naive_time) == row_time < current_naive_time

\* the test of the completion cell of line 84 left out
missing_entry_any_completion(row, today, current_naive_time) ==
  LET date == date_str(row.date)
      time == time_str_opt(row.time)
  IN IF ~date.some THEN None
     ELSE IF ~(date.v = today) THEN None
     ELSE IF ~time.some THEN None
     ELSE IF ~parse_ok(time.v) THEN None
     ELSE IF ~is_past(row_naive_time(time.v), current_naive_time) THEN None
     ELSE IF ~grace_passed(current_naive_time - row_naive_time(time.v)) THEN None
     ELSE Some(<<date.v, time.v>>)

\* lines 50-152: Some(missing_entry) when the row is pushed to
\* current_sheet_missing, None otherwise
missing_entry(row, today, current_naive_time) ==
  LET date == date_str(row.date)
      time == time_str_opt(row.time)
  IN IF ~date.some THEN None
     ELSE IF ~(date.v = today /\ ~is_completed(row.done)) THEN None
     ELSE IF ~time.some THEN None
     ELSE IF ~parse_ok(time.v) THEN None
     ELSE IF ~is_past(row_naive_time(time.v), current_naive_time) THEN None
     ELSE IF ~grace_passed(current_naive_time - row_naive_time(time.v)) THEN None
     ELSE Some(<<date.v, time.v>>)

\* a row of today that is not completed and has no time that parses
malformed_time(row, today) ==
  /\ date_str(row.date) = Some(today)
  /\ ~is_completed(row.done)
  /\ \/ ~time_str_opt(row.time).some
     \/ ~parse_ok(time_str_opt(row.time).v)

\* the scan of a sheet ended by the first row whose time does not parse
current_sheet_missing_until_malformed(rows, today, current_naive_time) ==
  LET scan[i \in 0..Len(rows)] ==
        IF i = 0 THEN <<>>
        ELSE IF \E k \in 1..i : malformed_time(rows[k], today)
          THEN scan[i - 1]
          ELSE LET e == missing_entry(rows[i], today, current_naive_time)
               IN IF e.some THEN Append(scan[i - 1], e.v) ELSE scan[i - 1]
  IN scan[Len(rows)]

\* lines 43-153: the rows of one sheet, top to bottom
current_sheet_missing(rows, today, current_naive_time) ==
  LET scan[i \in 0..Len(rows)] ==
        IF i = 0 THEN <<>>
        ELSE LET e == missing_entry(rows[i], today, current_naive_time)
             IN IF e.some THEN Append(scan[i - 1], e.v) ELSE scan[i - 1]
  IN scan[Len(rows)]

\* HashMap::new() and HashMap::insert
EmptyMap == [k \in {} |-> <<>>]
insert(map, key, value) ==
  [k \in DOMAIN map \cup {key} |-> IF k = key THEN value ELSE map[k]]
is_empty(map) == DOMAIN map = {}

\* a sheet that cannot be read drops what the sheets before it contributed
check_for_missed_notifications_abort(manage_games, sheets, t) ==
  LET today == today_str(t)
      current_naive_time == TimeOf(t)
      run[j \in 0..Len(manage_games)] ==
        IF j = 0 THEN EmptyMap
        ELSE LET sheet_name == manage_games[j]
             IN IF sheet_name \notin DOMAIN sheets
                  THEN EmptyMap
                  ELSE LET found == current_sheet_missing(
                                       sheets[sheet_name], today, current_naive_time)
                       IN IF found # <<>>
                            THEN insert(run[j - 1], sheet_name, found)
                            ELSE run[j - 1]
  IN run[Len(manage_games)]

\* the test of line 155 left out: every sheet that was read gets a key
check_for_missed_notifications_insert_always(manage_games, sheets, t) ==
  LET today == today_str(t)
      current_naive_time == TimeOf(t)
      run[j \in 0..Len(manage_games)] ==
        IF j = 0 THEN EmptyMap
        ELSE LET sheet_name == manage_games[j]
             IN IF sheet_name \notin DOMAIN sheets
                  THEN run[j - 1]
                  ELSE insert(run[j - 1], sheet_name,
                              current_sheet_missing(
                                sheets[sheet_name], today, current_naive_time))
  IN run[Len(manage_games)]

\* lines 26-177, after the workbook was opened: `sheets` maps the names of
\* the sheets of the workbook to their rows, `t` is Local::now()
check_for_missed_notifications(manage_games, sheets, t) ==
  LET today == today_str(t)
      current_naive_time == TimeOf(t)
      run[j \in 0..Len(manage_games)] ==
        IF j = 0 THEN EmptyMap
        ELSE LET sheet_name == manage_games[j]
             IN IF sheet_name \notin DOMAIN sheets
                  THEN run[j - 1]   \* worksheet_range: Err, logged
                  ELSE LET found == current_sheet_missing(
                                       sheets[sheet_name], today, current_naive_time)
                       IN IF found # <<>>
                            THEN insert(run[j - 1], sheet_name, found)
                            ELSE run[j - 1]
  IN run[Len(manage_games)]

\* the number of sheets in place of the number of entries
total_missing_count_sheets(map) == Cardinality(DOMAIN map)

\* total_missing_count (lines 169 and 205)
RECURSIVE SumLen(_, _)
SumLen(map, keys) ==
  IF keys = {} THEN 0
  ELSE LET k == CHOOSE x \in keys : TRUE
       IN Len(map[k]) + SumLen(map, keys \ {k})
total_missing_count(map) == SumLen(map, DOMAIN map)

----------------------------------------------------------------------------
(* write_missing_report *)

\* The sheet names in use, in the order String::cmp gives them.
SheetNames == <<"Alpha", "Beta", "GameA", "GameZ">>
Rank(name) == CHOOSE i \in 1..Len(SheetNames) : SheetNames[i] = name

\* the keys sorted the other way round
sorted_sheets_descending(keys) ==
  LET Above(k) == Cardinality({x \in keys : Rank(x) > Rank(k)})
  IN [i \in 1..Cardinality(keys) |-> CHOOSE k \in keys : Above(k) = i - 1]

\* keys().collect() followed by sort()
sorted_sheets(keys) ==
  LET Below(k) == Cardinality({x \in keys : Rank(x) < Rank(k)})
  IN [i \in 1..Cardinality(keys) |-> CHOOSE k \in keys : Below(k) = i - 1]

HeaderLine(sheet_name) == [k |-> "header", sheet |-> sheet_name, e |-> <<>>]
EntryLine(entry) == [k |-> "entry", sheet |-> "", e |-> entry]
BlankLine == [k |-> "blank", sheet |-> "", e |-> <<>>]
\* the fixed sentence of line 149
NoMissingLine == [k |-> "none_missing", sheet |-> "", e |-> <<>>]
\* a line of a file that this program did not write
ForeignLine == [k |-> "foreign", sheet |-> "", e |-> <<>>]

AbsentFile == [exists |-> FALSE, lines |-> <<>>]
File(lines) == [exists |-> TRUE, lines |-> lines]

\* lines 157-166
SectionLines(missing_data, sheet_name) ==
  <<HeaderLine(sheet_name)>>
    \o [i \in 1..Len(missing_data[sheet_name]) |-> EntryLine(missing_data[sheet_name][i])]
    \o <<BlankLine>>

\* lines 147-170: what the writer holds when it is flushed
ReportLines(missing_data) ==
  IF is_empty(missing_data) THEN <<NoMissingLine>>
  ELSE LET order == sorted_sheets(DOMAIN missing_data)
           out[i \in 0..Len(order)] ==
             IF i = 0 THEN <<>>
             ELSE out[i - 1] \o SectionLines(missing_data, order[i])
       IN out[Len(order)]

\* The results of write_missing_report on the file `old`:
\*   "ok"        every step succeeds
\*   "locked"    remove_file and File::create both fail
\*   "removed"   remove_file succeeds, File::create fails
\*   "truncated" File::create succeeds, the write behind flush() fails
WriteOutcomes == {"ok", "locked", "removed", "truncated"}

\* the file opened for appending: what was there stays
write_missing_report_append(old, missing_data, outcome) ==
  CASE outcome = "ok" -> File(old.lines \o ReportLines(missing_data))
    [] outcome = "locked" -> old
    [] outcome = "removed" -> AbsentFile
    [] outcome = "truncated" -> File(old.lines)

write_missing_report(old, missing_data, outcome) ==
  CASE outcome = "ok" -> File(ReportLines(missing_data))
    [] outcome = "locked" -> old
    [] outcome = "removed" -> AbsentFile
    [] outcome = "truncated" -> File(<<>>)

write_is_ok(outcome) == outcome = "ok"

----------------------------------------------------------------------------
(* The installations the scheduler runs on: config.cfg and the workbook *)

\* Config (utils.rs lines 18-23) without excel_path.  A text is a sequence
\* of pieces; the piece "{count}" is the placeholder.
Configs == <<
  [manage_games |-> <<"Alpha", "Beta">>,
   notification_title |-> None,
   notification_message_template |-> None],
  [manage_games |-> <<"Alpha", "Beta">>,
   notification_title |-> Some(<<"Games">>),
   notification_message_template |-> Some(<<"{count}", " missing">>)],
  [manage_games |-> <<"Alpha", "Beta">>,
   notification_title |-> None,
   notification_message_template |-> Some(<<"check the sheet">>)]
>>

Today == <<BaseSerial>>
Tomorrow == <<BaseSerial + 1>>

Row(date, time) == [date |-> date, time |-> time]

\* Columns B and C of the sheets of a workbook.  A configured sheet that is
\* not in the domain is a sheet worksheet_range cannot read.
Workbooks == <<
  \* rows around the grace period of the 23:11 poll, and a row late in the day
  [Alpha |-> << Row(StringCell(Today), StringCell(<<23, 2, 0>>)),
                Row(StringCell(Today), StringCell(<<23, 2, 1>>)) >>,
   Beta  |-> << Row(StringCell(Today), StringCell(<<23, 50, 0>>)) >>],
  \* numeric cells, a row of the next day, entries in both sheets
  [Alpha |-> << Row(FloatCell(BaseSerial, Hms(6, 0, 0)), FloatCell(0, Hms(22, 30, 0))),
                Row(StringCell(Tomorrow), StringCell(<<0, 1, 0>>)) >>,
   Beta  |-> << Row(StringCell(Today), StringCell(<<23, 30, 0>>)) >>],
  \* nothing is due, and the sheet Beta is not in the workbook
  [Alpha |-> << Row(StringCell(Today), StringCell(<<23, 59, 59>>)) >>]
>>

\* the marks a user leaves in column D
Mark == StringCell(OtherText)

\* a row that an earlier Detection Run returned is read as completed
Rows_without_reported(w, d, sheet_name) ==
  [i \in 1..Len(Workbooks[w][sheet_name]) |->
     [date |-> Workbooks[w][sheet_name][i].date,
      time |-> Workbooks[w][sheet_name][i].time,
      done |-> IF <<sheet_name, i>> \in reported THEN Mark ELSE d[sheet_name][i]]]

\* range.rows() of a sheet: columns B, C and D
Rows(w, d, sheet_name) ==
  [i \in 1..Len(Workbooks[w][sheet_name]) |->
     [date |-> Workbooks[w][sheet_name][i].date,
      time |-> Workbooks[w][sheet_name][i].time,
      done |-> d[sheet_name][i]]]

Sheets(w, d) == [sheet_name \in DOMAIN Workbooks[w] |-> Rows(w, d, sheet_name)]

RowIds(w) ==
  UNION {{<<sheet_name, i>> : i \in 1..Len(Workbooks[w][sheet_name])} :
           sheet_name \in DOMAIN Workbooks[w]}

\* the rows a Detection Run at time t pushes to the result
MissingRows(w, d, t) ==
  {id \in RowIds(w) :
     /\ \E j \in 1..Len(Configs[w].manage_games) : Configs[w].manage_games[j] = id[1]
     /\ missing_entry(Rows(w, d, id[1])[id[2]], today_str(t), TimeOf(t)).some}

----------------------------------------------------------------------------
(* start_notification_service *)

\* the first trigger minute one minute early
trigger_check_early(current_minute) == current_minute \in {10, 26, 41, 56}

\* lines 192-195
trigger_check(current_minute) == current_minute \in {11, 26, 41, 56}

\* lines 273-282
sleep_duration_secs(t) ==
  LET current_minute == minute(t)
      seconds_until_next_minute == 60 - second(t)
      rest == seconds_until_next_minute % 60
  IN IF current_minute \in {10, 25, 40, 55}
       THEN 1
       ELSE IF rest > 1 THEN rest ELSE 1

\* a backoff of less than a minute
BackoffSecsShort == 60 - 1
\* a wait of two minutes and more
PostTriggerSecsLong == 2 * 65

\* line 266
BackoffSecs == 60
\* line 271
PostTriggerSecs == 65

Start == DaySecs - LeadMinutes * 60
Horizon == DaySecs + TailMinutes * 60

\* The scheduler is started in the first, second, middle or last second of a
\* minute of the start window.
StartSeconds == {0, 1, 30, 59}
StartTimes ==
  {Start + 60 * m + s : m \in 0..(StartWindowMinutes - 1), s \in StartSeconds}

CheckDurations == {0, MaxCheckSecs}
NotifierDurations ==
  {0, 1, 15 * 60 - 65 - MaxCheckSecs, MaxNotifierSecs}

\* the scheduler is started with Configs[site]
NoArgs == [manage_games |-> <<>>, sheets |-> <<>>, t |-> 0]

Init ==
  /\ clock \in StartTimes
  /\ pc = "loop"
  /\ now = -1
  /\ lastTrigger = -1
  /\ site \in 1..Len(Workbooks)
  /\ done = [sheet_name \in DOMAIN Workbooks[site] |->
               [i \in 1..Len(Workbooks[site][sheet_name]) |-> EmptyCell]]
  /\ report \in {AbsentFile, File(<<ForeignLine>>)}
  /\ notification_list = EmptyMap
  /\ runNow = -1
  /\ cycleWork = 0
  /\ ran = "none"
  /\ wrote = "none"
  /\ message = <<>>
  /\ notifier = "none"
  /\ reportBefore = report
  /\ slept = 0
  /\ reported = {}
  /\ allRunsOk = TRUE
  /\ args = NoArgs

\* what every iteration starts from
NewIteration ==
  /\ now' = clock
  /\ notification_list' = EmptyMap
  /\ runNow' = -1
  /\ cycleWork' = 0
  /\ ran' = "none"
  /\ wrote' = "none"
  /\ message' = <<>>
  /\ notifier' = "none"
  /\ reportBefore' = report

\* lines 189-196 and 272-284: an iteration outside the trigger minutes
Waiting ==
  /\ pc = "loop"
  /\ clock < Horizon
  /\ ~trigger_check(minute(clock))
  /\ NewIteration
  /\ clock' = clock + sleep_duration_secs(clock)
  /\ slept' = sleep_duration_secs(clock)
  /\ UNCHANGED <<args, pc, lastTrigger, done, site, report, reported, allRunsOk>>

\* lines 189-201: an iteration inside a trigger minute starts a Detection Run
Triggered ==
  /\ pc = "loop"
  /\ clock < Horizon
  /\ trigger_check(minute(clock))
  /\ NewIteration
  /\ lastTrigger' = MinuteIdx(clock)
  /\ pc' = "check"
  /\ UNCHANGED <<args, clock, done, site, report, slept, reported, allRunsOk>>

\* the `continue` of line 267 left out
AfterCheckErrFallThrough == "post_sleep"

\* where a failed Detection Run leaves the loop (lines 264-268)
AfterCheckErr == "backoff"

\* lines 21-24 and 264-265: open_workbook fails
CheckErr ==
  /\ pc = "check"
  /\ ran' = "err"
  /\ allRunsOk' = FALSE
  /\ pc' = AfterCheckErr
  /\ UNCHANGED <<args, clock, now, lastTrigger, done, site, report, notification_list,
                 runNow, cycleWork, wrote, message, notifier, reportBefore, slept,
                 reported>>

\* the test of line 204 left out
AfterCheckOkAlwaysWrite(list) == "write"

\* where a Detection Run with result `list` leaves the loop (line 204)
AfterCheckOk(list) == IF ~is_empty(list) THEN "write" ELSE "post_sleep"

\* lines 202-204: the workbook is opened within d seconds and scanned
CheckOk(d) ==
  /\ pc = "check"
  /\ LET t == clock + d
         list == check_for_missed_notifications(
                   Configs[site].manage_games, Sheets(site, done), t)
     IN /\ clock' = t
        /\ runNow' = t
        /\ notification_list' = list
        /\ reported' = reported \cup MissingRows(site, done, t)
        /\ pc' = AfterCheckOk(list)
  /\ cycleWork' = cycleWork + d
  /\ ran' = "ok"
  /\ UNCHANGED <<args, now, lastTrigger, done, site, report, wrote, message, notifier,
                 reportBefore, slept, allRunsOk>>

\* a failed write ends the cycle
AfterWriteStopOnErr(outcome) == IF write_is_ok(outcome) THEN "notify" ELSE "post_sleep"

\* where the loop goes after write_missing_report (lines 217-223)
AfterWrite(outcome) == "notify"

\* line 223
DefaultTitle == <<"title of line 223">>
\* line 228
DefaultTemplate == <<"{count}", " of line 228">>

unwrap_or(option, default) == IF option.some THEN option.v ELSE default

\* str::replace("{count}", ...)
replace_count(template, count) ==
  [i \in DOMAIN template |->
     IF template[i] = "{count}" THEN ToString(count) ELSE template[i]]

\* lines 225-230
build_message(config, list) ==
  replace_count(unwrap_or(config.notification_message_template, DefaultTemplate),
                total_missing_count(list))

\* lines 217-232: the report is written, then the message is built
WriteReport(outcome) ==
  /\ pc = "write"
  /\ report' = write_missing_report(report, notification_list, outcome)
  /\ wrote' = IF write_is_ok(outcome) THEN "ok" ELSE "err"
  /\ message' = IF AfterWrite(outcome) = "notify"
                  THEN build_message(Configs[site], notification_list)
                  ELSE message
  /\ pc' = AfterWrite(outcome)
  /\ UNCHANGED <<args, clock, now, lastTrigger, done, site, notification_list, runNow,
                 cycleWork, ran, notifier, reportBefore, slept, reported, allRunsOk>>

\* lines 234 and 256-261: notification.exe is not there
NotifierMissing ==
  /\ pc = "notify"
  /\ notifier' = "missing"
  /\ pc' = "post_sleep"
  /\ UNCHANGED <<args, clock, now, lastTrigger, done, site, report, notification_list,
                 runNow, cycleWork, ran, wrote, message, reportBefore, slept,
                 reported, allRunsOk>>

\* the error of Command::status propagated with `?`
AfterLaunchErrReturn == "returned"

\* where the loop goes when the process cannot be spawned (lines 252-254)
AfterLaunchErr == "post_sleep"

\* lines 235-240 and 252-254: the process cannot be spawned
NotifierLaunchErr ==
  /\ pc = "notify"
  /\ notifier' = "launch_err"
  /\ pc' = AfterLaunchErr
  /\ UNCHANGED <<args, clock, now, lastTrigger, done, site, report, notification_list,
                 runNow, cycleWork, ran, wrote, message, reportBefore, slept,
                 reported, allRunsOk>>

\* the process spawned and not waited for
AfterLaunchSpawned == "post_sleep"

\* Command::status (line 240) returns when the process has exited
AfterLaunch == "notifier_running"

\* lines 235-240: the process is spawned; status() waits for it
NotifierLaunch ==
  /\ pc = "notify"
  /\ notifier' = "running"
  /\ pc' = AfterLaunch
  /\ UNCHANGED <<args, clock, now, lastTrigger, done, site, report, notification_list,
                 runNow, cycleWork, ran, wrote, message, reportBefore, slept,
                 reported, allRunsOk>>

\* lines 242-251: the process exits after d seconds
NotifierExit(d, success) ==
  /\ pc = "notifier_running"
  /\ clock' = clock + d
  /\ cycleWork' = cycleWork + d
  /\ notifier' = IF success THEN "success" ELSE "nonzero"
  /\ pc' = "post_sleep"
  /\ UNCHANGED <<args, now, lastTrigger, done, site, report, notification_list,
                 runNow, ran, wrote, message, reportBefore, slept, reported,
                 allRunsOk>>

\* lines 270-271
PostTriggerSleep ==
  /\ pc = "post_sleep"
  /\ clock' = clock + PostTriggerSecs
  /\ slept' = PostTriggerSecs
  /\ pc' = "loop"
  /\ UNCHANGED <<args, now, lastTrigger, done, site, report, notification_list,
                 runNow, cycleWork, ran, wrote, message, notifier, reportBefore,
                 reported, allRunsOk>>

\* lines 266-267
Backoff ==
  /\ pc = "backoff"
  /\ clock' = clock + BackoffSecs
  /\ slept' = BackoffSecs
  /\ pc' = "loop"
  /\ UNCHANGED <<args, now, lastTrigger, done, site, report, notification_list,
                 runNow, cycleWork, ran, wrote, message, notifier, reportBefore,
                 reported, allRunsOk>>

\* A user marks a row as completed.  The workbook is read only by CheckOk,
\* at one instant, so an edit commutes with every other step of a cycle
\* and is taken between iterations.
MarkComplete(sheet_name, i) ==
  /\ pc = "loop"
  /\ clock < Horizon
  /\ done[sheet_name][i] = EmptyCell
  /\ done' = [done EXCEPT ![sheet_name][i] = Mark]
  /\ UNCHANGED <<args, clock, pc, now, lastTrigger, site, report, notification_list,
                 runNow, cycleWork, ran, wrote, message, notifier, reportBefore,
                 slept, reported, allRunsOk>>

Next ==
  \/ Waiting
  \/ Triggered
  \/ CheckErr
  \/ \E d \in CheckDurations : CheckOk(d)
  \/ \E outcome \in WriteOutcomes : WriteReport(outcome)
  \/ NotifierMissing
  \/ NotifierLaunchErr
  \/ NotifierLaunch
  \/ \E d \in NotifierDurations, success \in BOOLEAN : NotifierExit(d, success)
  \/ PostTriggerSleep
  \/ Backoff
  \/ \E id \in RowIds(site) : MarkComplete(id[1], id[2])

Spec == Init /\ [][Next]_vars

\* The loop runs its steps one after the other and each of them ends.
FairSpec == Spec /\ WF_vars(Next)

----------------------------------------------------------------------------
(* main and read_config *)

SectionLine(name) == [k |-> "section", v |-> name]
TextLine(text) == [k |-> "text", v |-> text]
\* a line that starts with ';' or '#'
CommentLine == [k |-> "comment", v |-> ""]
EmptyLine == [k |-> "blank", v |-> ""]

\* to_lowercase of the section names in use
to_lowercase(name) ==
  CASE name = "MANAGE_GAME" -> "manage_game"
    [] name = "Title" -> "title"
    [] OTHER -> name

ConfigErr(reason) == [ok |-> FALSE, v |-> reason]
ConfigOk(config) == [ok |-> TRUE, v |-> config]

\* the check of lines 101-104 left out
read_config_any_games(lines) ==
  LET start == [current_section |-> "", excel_path_str |-> None,
                manage_games |-> <<>>, notification_title |-> None,
                notification_message_template |-> None]
      scan[i \in 0..Len(lines)] ==
        IF i = 0 THEN start
        ELSE LET acc == scan[i - 1]
                 line == lines[i]
             IN CASE line.k \in {"blank", "comment"} -> acc
                  [] line.k = "section" ->
                       [acc EXCEPT !.current_section = to_lowercase(line.v)]
                  [] acc.current_section = "target_path" ->
                       IF acc.excel_path_str.some THEN acc
                       ELSE [acc EXCEPT !.excel_path_str = Some(line.v)]
                  [] acc.current_section = "manage_game" ->
                       [acc EXCEPT !.manage_games = Append(@, line.v)]
                  [] acc.current_section = "title" ->
                       IF acc.notification_title.some THEN acc
                       ELSE [acc EXCEPT !.notification_title = Some(line.v)]
                  [] acc.current_section = "message" ->
                       IF acc.notification_message_template.some THEN acc
                       ELSE [acc EXCEPT !.notification_message_template = Some(line.v)]
                  [] OTHER -> acc
      read == scan[Len(lines)]
  IN IF ~read.excel_path_str.some THEN ConfigErr("no target_path")
     ELSE ConfigOk([manage_games |-> read.manage_games,
                    notification_title |-> read.notification_title,
                    notification_message_template |->
                      read.notification_message_template])

\* utils.rs lines 42-111 on a config.cfg that is there and can be read; the
\* Config is without excel_path, as in Configs
read_config(lines) ==
  LET start == [current_section |-> "", excel_path_str |-> None,
                manage_games |-> <<>>, notification_title |-> None,
                notification_message_template |-> None]
      scan[i \in 0..Len(lines)] ==
        IF i = 0 THEN start
        ELSE LET acc == scan[i - 1]
                 line == lines[i]
             IN CASE line.k \in {"blank", "comment"} -> acc
                  [] line.k = "section" ->
                       [acc EXCEPT !.current_section = to_lowercase(line.v)]
                  [] acc.current_section = "target_path" ->
                       IF acc.excel_path_str.some THEN acc
                       ELSE [acc EXCEPT !.excel_path_str = Some(line.v)]
                  [] acc.current_section = "manage_game" ->
                       [acc EXCEPT !.manage_games = Append(@, line.v)]
                  [] acc.current_section = "title" ->
                       IF acc.notification_title.some THEN acc
                       ELSE [acc EXCEPT !.notification_title = Some(line.v)]
                  [] acc.current_section = "message" ->
                       IF acc.notification_message_template.some THEN acc
                       ELSE [acc EXCEPT !.notification_message_template = Some(line.v)]
                  [] OTHER -> acc
      read == scan[Len(lines)]
  IN IF ~read.excel_path_str.some THEN ConfigErr("no target_path")
     ELSE IF read.manage_games = <<>> THEN ConfigErr("no manage_game")
     ELSE ConfigOk([manage_games |-> read.manage_games,
                    notification_title |-> read.notification_title,
                    notification_message_template |->
                      read.notification_message_template])

\* The config.cfg files of installation w.  The first is the one that
\* Configs[w] is read from.
TargetPathLines == <<SectionLine("target_path"), TextLine("book.xlsx")>>
GameLines(w) ==
  [i \in 1..Len(Configs[w].manage_games) |-> TextLine(Configs[w].manage_games[i])]
TitleLines(w) ==
  IF Configs[w].notification_title.some
    THEN <<SectionLine("Title"), TextLine(Configs[w].notification_title.v),
           TextLine(<<"second title">>)>>
    ELSE <<>>
MessageLines(w) ==
  IF Configs[w].notification_message_template.some
    THEN <<SectionLine("message"),
           TextLine(Configs[w].notification_message_template.v)>>
    ELSE <<>>
GameSection(w) == IF w = 2 THEN SectionLine("MANAGE_GAME") ELSE SectionLine("manage_game")

ConfigFiles(w) == <<
  \* as the user wrote it
  TargetPathLines \o <<EmptyLine, GameSection(w)>> \o GameLines(w)
    \o TitleLines(w) \o MessageLines(w),
  \* the section [manage_game] is there and has no line
  TargetPathLines \o <<GameSection(w)>> \o TitleLines(w) \o MessageLines(w),
  \* the lines of the section are commented out
  TargetPathLines \o <<GameSection(w), CommentLine, EmptyLine>> \o MessageLines(w),
  \* there is no section [manage_game]; the sheet names are above the first
  \* section and under a section of another name
  GameLines(w) \o TargetPathLines \o <<SectionLine("games")>> \o GameLines(w),
  \* there is no path under [target_path]
  <<SectionLine("target_path"), GameSection(w)>> \o GameLines(w)
>>

MainInit ==
  /\ pc = "main"
  /\ clock \in StartTimes
  /\ site \in 1..Len(Workbooks)
  /\ \E k \in DOMAIN ConfigFiles(site) : args = [lines |-> ConfigFiles(site)[k]]
  /\ now = -1
  /\ lastTrigger = -1
  /\ done = [sheet_name \in DOMAIN Workbooks[site] |->
               [i \in 1..Len(Workbooks[site][sheet_name]) |-> EmptyCell]]
  /\ report \in {AbsentFile, File(<<ForeignLine>>)}
  /\ notification_list = EmptyMap
  /\ runNow = -1
  /\ cycleWork = 0
  /\ ran = "none"
  /\ wrote = "none"
  /\ message = <<>>
  /\ notifier = "none"
  /\ reportBefore = report
  /\ slept = 0
  /\ reported = {}
  /\ allRunsOk = TRUE

MainUnchanged ==
  UNCHANGED <<args, clock, now, lastTrigger, done, site, report,
              notification_list, runNow, cycleWork, ran, wrote, message,
              notifier, reportBefore, slept, reported, allRunsOk>>

\* main.rs lines 23-26: read_config returns an error, `?` ends the process
MainConfigErr ==
  /\ pc = "main"
  /\ ~read_config(args.lines).ok
  /\ pc' = "exited"
  /\ MainUnchanged

\* main.rs lines 35-41: the workbook of the [target_path] is not there
MainExcelMissing ==
  /\ pc = "main"
  /\ read_config(args.lines).ok
  /\ pc' = "exited"
  /\ MainUnchanged

\* main.rs lines 43-44: start_notification_service is entered
MainStart ==
  /\ pc = "main"
  /\ read_config(args.lines).ok
  /\ pc' = "loop"
  /\ MainUnchanged

MainNext ==
  \/ MainConfigErr
  \/ MainExcelMissing
  \/ MainStart
  \/ Next

MainSpec == MainInit /\ [][MainNext]_vars

----------------------------------------------------------------------------
(* check_for_missed_notifications and write_missing_report called on their  *)
(* own: the Detection Run on a workbook, then the Report Writer on what it  *)
(* returned, empty or not                                                   *)

Row3(date, time, completed) == [date |-> date, time |-> time, done |-> completed]

\* the sheets GameA and GameZ are in the workbook, the sheet Alpha is not
UnitNames == {"GameA", "GameZ", "Alpha"}
UnitGames == UNION {[1..n -> UnitNames] : n \in 1..MaxGames}

UnitDateCells ==
  {StringCell(Today), StringCell(Tomorrow), FloatCell(BaseSerial, Hms(6, 0, 0)),
   EmptyCell}
UnitTimeCells ==
  {StringCell(<<12, 0, 0>>), StringCell(OtherText), FloatCell(0, Hms(12, 0, 0)),
   FloatCell(BaseSerial, Hms(12, 0, 0)), EmptyCell}
UnitDoneCells == {EmptyCell, StringCell(<<>>), Mark, BoolCell}

UnitRows ==
  {Row3(date, time, completed) :
     date \in UnitDateCells, time \in UnitTimeCells, completed \in UnitDoneCells}

\* GameA: any row above a row due at 12:00:00; GameZ: a row due at 11:00:00,
\* completed or not
UnitSheets ==
  {[GameA |-> <<r, Row3(StringCell(Today), StringCell(<<12, 0, 0>>), EmptyCell)>>,
    GameZ |-> <<Row3(StringCell(Today), StringCell(<<11, 0, 0>>), completed)>>] :
     r \in UnitRows, completed \in {EmptyCell, Mark}}

\* Local::now(): one second before the grace period of 12:00:00 has passed,
\* the second it has passed, and later
UnitTimes == {Hms(12, 8, 59), Hms(12, 9, 0), Hms(12, 30, 0)}

\* missing.txt before the call: not there, a file of another program, the
\* report of an earlier poll
UnitFiles ==
  {AbsentFile,
   File(<<ForeignLine>>),
   File(<<HeaderLine("GameZ"), EntryLine(<<Today, <<9, 0, 0>>>>), BlankLine>>)}

UnitInit ==
  /\ pc = "unit_start"
  /\ args \in [manage_games : UnitGames, sheets : UnitSheets, t : UnitTimes]
  /\ report \in UnitFiles
  /\ reportBefore = report
  /\ notification_list = EmptyMap
  /\ runNow = -1
  /\ ran = "none"
  /\ wrote = "none"
  /\ clock = args.t
  /\ now = -1
  /\ lastTrigger = -1
  /\ site = 0
  /\ done = <<>>
  /\ cycleWork = 0
  /\ message = <<>>
  /\ notifier = "none"
  /\ slept = 0
  /\ reported = {}
  /\ allRunsOk = TRUE

\* notification.rs lines 19-178 on a workbook that opens
UnitRun ==
  /\ pc = "unit_start"
  /\ notification_list' =
       check_for_missed_notifications(args.manage_games, args.sheets, args.t)
  /\ runNow' = args.t
  /\ ran' = "ok"
  /\ pc' = "unit_ran"
  /\ UNCHANGED <<args, clock, now, lastTrigger, done, site, report, cycleWork,
                 wrote, message, notifier, reportBefore, slept, reported,
                 allRunsOk>>

\* utils.rs lines 130-174 on the result of the run
UnitWrite(outcome) ==
  /\ pc = "unit_ran"
  /\ report' = write_missing_report(report, notification_list, outcome)
  /\ wrote' = IF write_is_ok(outcome) THEN "ok" ELSE "err"
  /\ pc' = "unit_written"
  /\ UNCHANGED <<args, clock, now, lastTrigger, done, site, notification_list,
                 runNow, cycleWork, ran, message, notifier, reportBefore, slept,
                 reported, allRunsOk>>

UnitNext ==
  \/ UnitRun
  \/ \E outcome \in WriteOutcomes : UnitWrite(outcome)

UnitSpec == UnitInit /\ [][UnitNext]_vars

----------------------------------------------------------------------------
(* Properties *)

\* the trigger minutes as the specification names them
TriggerMinutes == {11, 26, 41, 56}

\* The workbook is as the Detection Run of the current cycle read it.
Scanned == ran = "ok" /\ pc # "loop"

RowOf(id) == Rows(site, done, id[1])[id[2]]
DueOn(id, t) ==
  /\ date_str(RowOf(id).date) = Some(today_str(t))
  /\ ~is_completed(RowOf(id).done)
TimeParses(id) ==
  /\ time_str_opt(RowOf(id).time).some
  /\ parse_ok(time_str_opt(RowOf(id).time).v)
RowTime(id) == row_naive_time(time_str_opt(RowOf(id).time).v)
Elapsed(id) == TimeOf(runNow) - RowTime(id)
InResult(id) ==
  /\ id[1] \in DOMAIN notification_list
  /\ \E k \in DOMAIN notification_list[id[1]] :
       notification_list[id[1]][k]
         = <<date_str(RowOf(id).date).v, time_str_opt(RowOf(id).time).v>>
Candidates == {id \in RowIds(site) : DueOn(id, runNow) /\ TimeParses(id)}

C2_EventualDetection ==
  (/\ pc = "post_sleep"
   /\ ran = "ok"
   /\ allRunsOk
   /\ lastTrigger = MinuteIdx(Hms(23, 56, 0))
   /\ DayOf(runNow) = 0)
  => \A id \in Candidates : id \in reported

\* A trigger minute lies between the minute of the latest evaluation of the
\* trigger condition and the minute of the next one.
Overshot ==
  \E k \in (MinuteIdx(now) + 1)..(MinuteIdx(clock) - 1) : (k % 60) \in TriggerMinutes

\* C3 as stated: if the work of a cycle takes less than the 15 minutes between
\* two trigger minutes, no trigger minute passes without an evaluation of the
\* trigger condition.
C3_NoOvershootAsStated ==
  (pc = "loop" /\ now >= 0 /\ cycleWork < 15 * 60) => ~Overshot

\* C3 amended: if the work of a cycle takes no more than the 15 minutes
\* between two trigger minutes less the 65 seconds of the sleep that follows
\* it, no trigger minute passes without an evaluation of the trigger
\* condition, and an evaluation in a trigger minute starts a Detection Run.
C3_NoOvershoot ==
  /\ (pc = "loop" /\ now >= 0 /\ cycleWork <= 15 * 60 - 65) => ~Overshot
  /\ (now >= 0 /\ minute(now) \in TriggerMinutes) => (pc = "check" \/ ran # "none")

C3_Witness ==
  /\ pc = "loop"
  /\ cycleWork = 15 * 60 - 65
  /\ minute(now) \in TriggerMinutes
  /\ minute(clock) \in TriggerMinutes
  /\ MinuteIdx(clock) = MinuteIdx(now) + 15

\* C4: an iteration that runs a detection, writes the report or reaches the
\* notifier has read a minute of 11, 26, 41 or 56 at its top; an iteration
\* that has read another minute has done nothing but sleep.
C4_OnlyInTriggerMinutes ==
  now >= 0 =>
    \/ minute(now) \in TriggerMinutes
    \/ /\ pc = "loop"
       /\ ran = "none" /\ wrote = "none" /\ notifier = "none"
       /\ report = reportBefore
       /\ clock = now + slept

C4_Witness ==
  /\ pc = "notifier_running"
  /\ minute(now) = 26

\* C5: at the top of every iteration the minute is later than the minute of
\* the latest triggered iteration, so no occurrence of a trigger minute
\* triggers twice.
C5_OncePerTriggerMinute == pc = "loop" => MinuteIdx(clock) > lastTrigger

C5_Witness ==
  /\ pc = "loop"
  /\ ran = "err"
  /\ slept = 60
  /\ MinuteIdx(clock) = lastTrigger + 1
  /\ second(clock) = 0

\* C6: a cycle whose Detection Run failed writes no report, does not reach
\* the notifier, sleeps 60 seconds and is back at the top of the loop.
C6_FailedRunBacksOff ==
  ran = "err" =>
    /\ wrote = "none" /\ notifier = "none" /\ message = <<>>
    /\ report = reportBefore
    /\ pc \in {"backoff", "loop"}
    /\ pc = "loop" => slept = 60 /\ clock = now + 60

C6_Witness ==
  /\ pc = "loop"
  /\ ran = "err"
  /\ slept = 60

\* C7: whatever the outcome of a poll, the loop gets back to its top, and it
\* is never anywhere else than in one of its steps.
C7_NoTerminalState ==
  /\ [](pc \in {"loop", "check", "backoff", "write", "notify",
                "notifier_running", "post_sleep"})
  /\ (pc # "loop") ~> (pc = "loop")

C7_Witness ==
  /\ pc = "loop"
  /\ ~allRunsOk
  /\ ran = "ok"
  /\ wrote = "err"
  /\ notifier = "launch_err"

\* C8: a triggered poll with an empty result does not call the Report Writer,
\* leaves the report artifact as it was and does not reach the notifier.
C8_EmptyPollHasNoOutput ==
  (ran = "ok" /\ is_empty(notification_list)) =>
    /\ wrote = "none"
    /\ report = reportBefore
    /\ notifier = "none" /\ message = <<>>

\* an empty poll that leaves the report of an earlier poll in place
C8_Witness ==
  /\ pc = "loop"
  /\ ran = "ok" /\ is_empty(notification_list)
  /\ report.exists
  /\ report.lines # <<>>
  /\ report.lines[1].k = "header"

\* C9 as stated: after a triggered poll with an empty result the report
\* artifact holds exactly the "no missing entries" sentence.
C9_SentenceAsStated ==
  (ran = "ok" /\ is_empty(notification_list) /\ pc \in {"post_sleep", "loop"})
    => report = File(<<NoMissingLine>>)

\* C9 amended: a triggered poll with an empty result does not write the
\* report artifact; after it the artifact holds what it held before the poll,
\* which is never the "no missing entries" sentence.
C9_EmptyPollWritesNothing ==
  (ran = "ok" /\ is_empty(notification_list) /\ pc \in {"post_sleep", "loop"})
    => /\ wrote = "none"
       /\ report = reportBefore
       /\ report # File(<<NoMissingLine>>)

C9_Witness ==
  /\ pc = "post_sleep"
  /\ ran = "ok" /\ is_empty(notification_list)
  /\ report = File(<<ForeignLine>>)

\* C10: a cycle whose report write failed still builds the message and
\* takes the notifier step (the notifier is launched if notification.exe is
\* there), then sleeps 65 seconds.
C10_WriteErrorDoesNotBlock ==
  wrote = "err" =>
    /\ pc \in {"notify", "notifier_running", "post_sleep", "loop"}
    /\ message = build_message(Configs[site], notification_list)
    /\ pc # "notify" => notifier # "none"
    /\ pc = "loop" => slept = 65

C10_Witness ==
  /\ pc = "loop"
  /\ wrote = "err"
  /\ notifier = "success"
  /\ message # <<>>
  /\ slept = 65

\* the rows a Detection Run at the time the cycle ran its own would return
CycleCount == Cardinality(MissingRows(site, done, runNow))
CycleTemplate ==
  IF Configs[site].notification_message_template.some
    THEN Configs[site].notification_message_template.v
    ELSE <<"{count}", " of line 228">>

\* C11: the message of a cycle is the configured template, or the default
\* one if none is configured, with the placeholder {count} replaced by the
\* number of missing rows of all sheets together: one missing row and the
\* template "{count} missing" give "1 missing".
C11_MessageCountsAllEntries ==
  (Scanned /\ wrote # "none") =>
    /\ message = [i \in DOMAIN CycleTemplate |->
                    IF CycleTemplate[i] = "{count}" THEN ToString(CycleCount)
                    ELSE CycleTemplate[i]]
    /\ (site = 2 /\ CycleCount = 1) => message = <<"1", " missing">>
    /\ (site = 2 /\ CycleCount = 2) => message = <<"2", " missing">>

\* one entry in each of two sheets
C11_Witness ==
  /\ pc = "notify"
  /\ site = 2
  /\ DOMAIN notification_list = {"Alpha", "Beta"}
  /\ message = <<"2", " missing">>

\* C20: the steps of a cycle run one after the other: the Detection Run,
\* then the Report Writer, then the notifier, whose exit is awaited, then
\* the sleep of 65 seconds.  While a notifier runs the loop is at the call
\* that launched it, so no Detection Run starts and no poll is taken before
\* it has exited.
C20_StepsInSequence ==
  /\ notifier = "running" <=> pc = "notifier_running"
  /\ pc = "check" => (ran = "none" /\ wrote = "none" /\ notifier = "none")
  /\ pc = "write" => (ran = "ok" /\ wrote = "none" /\ notifier = "none")
  /\ pc = "notify" => (ran = "ok" /\ wrote # "none" /\ notifier = "none")
  /\ pc = "notifier_running" =>
       (ran = "ok" /\ wrote # "none" /\ lastTrigger = MinuteIdx(now))
  /\ (pc = "post_sleep" /\ wrote # "none") =>
       notifier \in {"success", "nonzero", "missing", "launch_err"}
  /\ (pc = "loop" /\ wrote # "none") =>
       /\ notifier \in {"success", "nonzero", "missing", "launch_err"}
       /\ slept = 65
       /\ clock = now + cycleWork + 65
       /\ lastTrigger = MinuteIdx(now)

\* a notifier that ran for the longest time, over the next trigger minute
C20_Witness ==
  /\ pc = "loop"
  /\ notifier = "success"
  /\ wrote = "ok"
  /\ cycleWork >= 15 * 60 - 65
  /\ lastTrigger = MinuteIdx(now)

\* the row is dated the day of the cycle's Detection Run and is not marked
StillOpen(id) ==
  /\ date_str(Workbooks[site][id[1]][id[2]].date) = Some(today_str(runNow))
  /\ ~is_completed(done[id[1]][id[2]])
ReportedAndOpen == {id \in reported : StillOpen(id)}
EntryCount ==
  Cardinality(UNION {{<<g, k>> : k \in DOMAIN notification_list[g]} :
                       g \in DOMAIN notification_list})

\* C22: a row that a Detection Run has returned and that is still dated
\* today and not completed is in the result of every later successful
\* Detection Run of the day and is counted in its message: no poll leaves
\* out what an earlier poll reported.
C22_ReportedAgain ==
  Scanned =>
    /\ \A id \in ReportedAndOpen : InResult(id)
    /\ EntryCount >= Cardinality(ReportedAndOpen)
    /\ (wrote # "none" /\ site \in {1, 2}) => message[1] = ToString(EntryCount)

\* the polls of 23:11 and 23:26 both succeeded and both return the row of
\* 23:02:00, which nobody marked
C22_Witness ==
  /\ pc = "notify"
  /\ site = 1
  /\ allRunsOk
  /\ lastTrigger = MinuteIdx(Hms(23, 26, 0))
  /\ done["Alpha"][1] = EmptyCell
  /\ <<"Alpha", 1>> \in reported
  /\ InResult(<<"Alpha", 1>>)
  /\ message[1] = "2"

----------------------------------------------------------------------------
(* Properties of main (MainSpec) *)

\* the section a line of config.cfg is under
SectionAt(lines, i) ==
  LET heads == {j \in 1..(i - 1) : lines[j].k = "section"}
  IN IF heads = {} THEN ""
     ELSE to_lowercase(lines[CHOOSE j \in heads : \A h \in heads : h <= j].v)
NoGameLine(lines) ==
  ~\E i \in DOMAIN lines :
     lines[i].k = "text" /\ SectionAt(lines, i) = "manage_game"

\* C19: with a config.cfg that has no sheet name under [manage_game] the
\* process exits from main: the scheduler is not entered, there is no
\* Detection Run, no report write and no notifier.
C19_NoGamesNoScheduler ==
  ("lines" \in DOMAIN args /\ NoGameLine(args.lines)) =>
    /\ ~read_config(args.lines).ok
    /\ pc \in {"main", "exited"}
    /\ now = -1
    /\ ran = "none" /\ wrote = "none" /\ notifier = "none"
    /\ report = reportBefore

\* the section is there and empty, and the process has exited
C19_Witness ==
  /\ pc = "exited"
  /\ args.lines = ConfigFiles(site)[2]
  /\ \E i \in DOMAIN args.lines : args.lines[i] = GameSection(site)

\* the config.cfg of an installation is read as the Config the scheduler of
\* the installation runs with
ConfigsAreRead ==
  \A w \in 1..Len(Workbooks) : read_config(ConfigFiles(w)[1]) = ConfigOk(Configs[w])

----------------------------------------------------------------------------
(* Properties of the functions called on their own (UnitSpec) *)

Configured(sheet_name) ==
  \E j \in DOMAIN args.manage_games : args.manage_games[j] = sheet_name
Readable(sheet_name) == sheet_name \in DOMAIN args.sheets
UnitRan == pc \in {"unit_ran", "unit_written"}

\* the configured sheet names without those of sheets that cannot be read
ReadableGames == SelectSeq(args.manage_games, Readable)

\* C12: when a configured sheet cannot be read, the Detection Run still
\* returns a result; the sheet has no key in it, and the result is the one
\* the run returns when the sheet is not configured at all, so every other
\* sheet, configured before or after it, contributes the same entries.
C12_SheetFailureIsolated ==
  (UnitRan /\ \E g \in UnitNames : Configured(g) /\ ~Readable(g)) =>
    /\ ran = "ok"
    /\ \A g \in UnitNames : ~Readable(g) => g \notin DOMAIN notification_list
    /\ notification_list =
         check_for_missed_notifications(ReadableGames, args.sheets, args.t)

C12_Witness ==
  /\ pc = "unit_ran"
  /\ args.manage_games = <<"GameA", "Alpha", "GameZ">>
  /\ DOMAIN notification_list = {"GameA", "GameZ"}

HasMissing(sheet_name) ==
  \E i \in DOMAIN args.sheets[sheet_name] :
    missing_entry(args.sheets[sheet_name][i], today_str(args.t), TimeOf(args.t)).some

\* C13: a sheet name is a key of the result exactly if it is configured and
\* the sheet has a row that is missing, and no key maps to an empty list,
\* also when the sheet name is configured more than once.
C13_KeysHaveMissingRows ==
  UnitRan =>
    /\ \A g \in UnitNames :
         g \in DOMAIN notification_list
           <=> (Configured(g) /\ Readable(g) /\ HasMissing(g))
    /\ \A g \in DOMAIN notification_list : notification_list[g] # <<>>

C13_Witness ==
  /\ pc = "unit_ran"
  /\ args.manage_games = <<"GameA", "GameZ", "GameA">>
  /\ DOMAIN notification_list = {"GameZ"}

\* the row is dated today and its completion flag is false
Eligible(row) ==
  /\ date_str(row.date) = Some(today_str(args.t))
  /\ ~is_completed(row.done)
EligibleSheets ==
  [g \in DOMAIN args.sheets |-> SelectSeq(args.sheets[g], Eligible)]

\* C14: rows whose completion flag is true, or whose normalized date is
\* absent or another day than today, do not show in the result whatever
\* their time cell and the current time are: every entry is dated today,
\* and the result is the one of the workbook without these rows.
C14_OnlyOpenRowsOfToday ==
  UnitRan =>
    /\ \A g \in DOMAIN notification_list :
         \A k \in DOMAIN notification_list[g] :
           notification_list[g][k][1] = today_str(args.t)
    /\ notification_list =
         check_for_missed_notifications(args.manage_games, EligibleSheets, args.t)

\* a completed row of today that was due half an hour ago, above an open one
C14_Witness ==
  /\ pc = "unit_ran"
  /\ args.t = Hms(12, 30, 0)
  /\ args.sheets["GameA"][1] = Row3(StringCell(Today), StringCell(<<12, 0, 0>>), Mark)
  /\ "GameA" \in DOMAIN notification_list
  /\ Len(notification_list["GameA"]) = 1

\* C16: the report has one section for every key of the result, the sections
\* are in the order of the sheet names (GameA before GameZ), whatever the
\* order the sheets were scanned and inserted in, and the section of a sheet
\* is its header, its entries in the order of the result and a blank line.
C16_SectionsInNameOrder ==
  (pc = "unit_written" /\ wrote = "ok" /\ ~is_empty(notification_list)) =>
    LET lines == report.lines
        Headers == {i \in DOMAIN lines : lines[i].k = "header"}
    IN /\ {lines[i].sheet : i \in Headers} = DOMAIN notification_list
       /\ \A i, j \in Headers : i < j => Rank(lines[i].sheet) < Rank(lines[j].sheet)
       /\ \A i \in Headers :
            LET entries == notification_list[lines[i].sheet]
            IN /\ i + Len(entries) + 1 \in DOMAIN lines
               /\ \A k \in DOMAIN entries : lines[i + k] = EntryLine(entries[k])
               /\ lines[i + Len(entries) + 1] = BlankLine
       /\ DOMAIN notification_list = {"GameA", "GameZ"} =>
            /\ lines[1] = HeaderLine("GameA")
            /\ lines[Len(notification_list["GameA"]) + 3] = HeaderLine("GameZ")
            /\ Len(lines) = Len(notification_list["GameA"])
                              + Len(notification_list["GameZ"]) + 4

\* GameZ was scanned and inserted before GameA
C16_Witness ==
  /\ pc = "unit_written" /\ wrote = "ok"
  /\ args.manage_games = <<"GameZ", "GameA">>
  /\ DOMAIN notification_list = {"GameA", "GameZ"}
  /\ Len(notification_list["GameA"]) = 2
  /\ Len(report.lines) = 7
  /\ report.lines[1] = HeaderLine("GameA")
  /\ report.lines[4] = BlankLine
  /\ report.lines[5] = HeaderLine("GameZ")

\* C17: when the Report Writer is called with an empty result and returns
\* Ok, the report artifact holds the "no missing entries" sentence and
\* nothing else, whether the artifact was absent, an earlier report or a file
\* of another origin before.
C17_EmptyResultWritesSentence ==
  (pc = "unit_written" /\ wrote = "ok" /\ is_empty(notification_list)) =>
    report = File(<<NoMissingLine>>)

\* the report of an earlier poll is replaced by the sentence
C17_Witness ==
  /\ pc = "unit_written" /\ wrote = "ok"
  /\ is_empty(notification_list)
  /\ reportBefore.exists
  /\ reportBefore.lines[1] = HeaderLine("GameZ")
  /\ report = File(<<NoMissingLine>>)

\* C18 as stated: the time text of a numeric time cell is made of the
\* fractional part of the serial value only: the cell 45000.5 (day 45000 and
\* 12 hours) gives "12:00:00".
C18_TimeFromFraction ==
  UnitRan =>
    \A g \in DOMAIN args.sheets :
      \A i \in DOMAIN args.sheets[g] :
        LET cell == args.sheets[g][i].time
        IN cell.t \in {"Float", "DateTime"} =>
             time_str_opt(cell)
               = Some(<<cell.f \div 3600, (cell.f % 3600) \div 60, cell.f % 60>>)

\* the text is "hh:mm:ss" with an hour below 24
ParsesAsTime(text) ==
  Len(text) = 3 /\ text[1] < 24 /\ text[2] < 60 /\ text[3] < 60
MalformedRow(row) ==
  /\ Eligible(row)
  /\ \/ row.time.t \in {"Empty", "None"}
     \/ ~ParsesAsTime(time_str_opt(row.time).v)
WellFormed(row) == ~MalformedRow(row)
WellFormedSheets ==
  [g \in DOMAIN args.sheets |-> SelectSeq(args.sheets[g], WellFormed)]

\* C21: a row of today that is not completed and whose time cell is empty
\* or gives a text that is not a time of day (a numeric cell with 24 hours
\* or more among them) adds no entry, and the rows below it and the sheets
\* after it add what they add in a workbook without the row: every entry
\* has a time of day, and the result is that of the workbook without these
\* rows.
C21_MalformedTimeSkipped ==
  UnitRan =>
    /\ \A g \in DOMAIN notification_list :
         \A k \in DOMAIN notification_list[g] :
           ParsesAsTime(notification_list[g][k][2])
    /\ notification_list =
         check_for_missed_notifications(args.manage_games, WellFormedSheets, args.t)

\* a numeric time cell of 1080012 hours above a row that is missing, in the
\* first of two sheets
C21_Witness ==
  /\ pc = "unit_ran"
  /\ args.t = Hms(12, 30, 0)
  /\ args.manage_games = <<"GameA", "GameZ">>
  /\ args.sheets["GameA"][1]
       = Row3(StringCell(Today), FloatCell(BaseSerial, Hms(12, 0, 0)), EmptyCell)
  /\ DOMAIN notification_list = {"GameA", "GameZ"}
  /\ Len(notification_list["GameA"]) = 1

====
